---- MODULE Spec2Model ----
(***************************************************************************)
(* A model of src/cartopy_cmaqfile.py: class cmaqfile, the interface to    *)
(* the spatial metadata of a CMAQ file.                                    *)
(*                                                                         *)
(* Numbers.  The metadata and every coordinate are Python / numpy floats.  *)
(* A value is modelled as a whole number of a length quantum, and every    *)
(* arithmetic result is rounded to Precision significant bits, ties to     *)
(* even (fl), the way binary floating point rounds (a double has 53).      *)
(* Cell sizes are an even number of quanta, so that XCELL/2. is a whole    *)
(* number of quanta, as halving is exact in binary floating point.         *)
(* On the grids of WholeGrids no result needs more than Precision bits and *)
(* the arithmetic is exact; on the grids of FloatGrids the cell width has  *)
(* a full significand and products and sums are rounded.                   *)
(*                                                                         *)
(* The projection engine (cartopy) and the stdout are outside the code:    *)
(* a projection object is the record of its constructor's arguments, the   *)
(* points transform_points returns are an input of the call, and print     *)
(* appends to the sequence out.                                            *)
(***************************************************************************)
EXTENDS Integers, Sequences, FiniteSets, TLC

VARIABLES
    ds,      \* self.ds: the metadata record (never assigned after __init__)
    op,      \* the method of the last call ("" before the first)
    args,    \* the arguments of the last call
    ret,     \* what the last call returned ([kind |-> "None"]: None or nothing)
    out,     \* the messages the last call printed, in order
    raised,  \* TRUE when the last call ended with an exception instead
    engine   \* the points transform_points handed back in the last call

vars == <<ds, op, args, ret, out, raised, engine>>

(***************************************************************************)
(* Bounds of the model.                                                    *)
(***************************************************************************)
Precision == 5     \* significant bits of a float of the model
MaxCols == 2       \* NCOLS ranges over 1..MaxCols
MaxRows == 2       \* NROWS ranges over 1..MaxRows

(***************************************************************************)
(* Program constants.                                                      *)
(***************************************************************************)
DefaultRadius == 6370000
NaN == -1          \* np.nan in an index list (an index is never negative)

MsgCenters == "ERROR: Cannot use getXYcenters with lat-lon projection."
MsgCorners == "ERROR: Cannot use getXYcorners with lat-lon projection."
MsgUnsupported(gdtyp) == "Projection GDTYP " \o ToString(gdtyp) \o " not supported."
MsgLl2xyLatLon == "ERROR: GDTYPE=1. Cannot use ll2xy with lat-lon projection."
MsgXy2llLatLon == "ERROR: Cannot use ll2xy with lat-lon projection."
MsgLl2ijLatLon == "ERROR: Cannot use ll2ij with lat-lon projection."
MsgLonLatSize == "ERROR: Number of longitude and latitude points must be equal."
MsgXYSize == "ERROR: Number of X and Y points must be equal."

None == [kind |-> "None"]

(***************************************************************************)
(* Floating point.                                                         *)
(***************************************************************************)
RECURSIVE Pow2(_)
Pow2(n) == IF n <= 0 THEN 1 ELSE 2 * Pow2(n - 1)

Abs(x) == IF x < 0 THEN -x ELSE x

\* The least power of two u with a < 2^Precision * u: the spacing of the
\* floats around a (never below one quantum).
\* 2^Precision: a float's significand is below it.
Limit == Pow2(Precision)

RECURSIVE Spacing(_, _)
Spacing(a, u) == IF a < Limit * u THEN u ELSE Spacing(a, 2 * u)

\* n/d (d > 0, n >= 0) rounded to the nearest whole number, ties to even.
RoundHalfEven(n, d) ==
    LET f == n \div d
        r == n % d
    IN  IF 2 * r > d \/ (2 * r = d /\ f % 2 = 1) THEN f + 1 ELSE f

\* x rounded to Precision significant bits.
fl(x) ==
    LET a == Abs(x)
        u == Spacing(a, 1)
        m == RoundHalfEven(a, u) * u
    IN  IF x < 0 THEN -m ELSE m

\* The least k with n * 2^k >= 2^(Precision-1) * d: the scale at which the
\* quotient n/d (n, d > 0) has a full significand.
RECURSIVE QuotScale(_, _, _)
QuotScale(n, d, k) ==
    IF 2 * n * Pow2(k) >= Limit * d THEN k ELSE QuotScale(n, d, k + 1)

\* ceil(fl(n / d)) for d > 0: the quotient rounded to Precision significant
\* bits, then rounded up to a whole number; 0 when the quotient is not
\* positive.
CeilDiv(n, d) ==
    IF n <= 0 THEN 0
    ELSE LET k == QuotScale(n, d, 0)
             s == RoundHalfEven(n * Pow2(k), d)
         IN  (s + Pow2(k) - 1) \div Pow2(k)

\* np.arange(start, stop, step) for a positive float step:
\* ceil((stop - start)/step) values start + i*step.
arange(start, stop, step) ==
    [i \in 1..CeilDiv(fl(stop - start), step) |-> fl(start + fl((i - 1) * step))]

\* np.meshgrid(X, Y): two arrays of Len(Y) rows and Len(X) columns.
meshgrid(X, Y) ==
    [Xcorners |-> [r \in 1..Len(Y) |-> X],
     Ycorners |-> [r \in 1..Len(Y) |-> [c \in 1..Len(X) |-> Y[r]]]]

(***************************************************************************)
(* The metadata records of the model.                                      *)
(***************************************************************************)
Grid(g, xo, xc, nc, yo, yc, nr) ==
    [GDTYP |-> g, XORIG |-> xo, YORIG |-> yo, XCELL |-> xc, YCELL |-> yc,
     NCOLS |-> nc, NROWS |-> nr,
     XCENT |-> -97, YCENT |-> 40, P_ALP |-> 33, P_BET |-> 45]

\* The grid of 3 columns and 2 rows of square cells from the origin, with
\* half a cell width as the quantum.
ExampleGrid == Grid(2, 0, 2, 3, 0, 2, 2)

\* Grids on which the arithmetic is exact: the unsupported codes 1 and 7 and
\* the Lambert code 2 on every geometry, the polar code 6 on a grid of one
\* cell (the methods read the code of a supported grid in getCMAQproj alone).
WholeGrids ==
    {Grid(g, -4, xc, nc, 2, 2, nr) :
        g \in {1, 2, 7}, xc \in {2, 4}, nc \in 1..MaxCols, nr \in 1..MaxRows}
    \cup {Grid(6, -4, 4, 1, 2, 2, 1)}
    \cup {ExampleGrid}

\* Grids whose cell width has a full significand (twice an m of Precision
\* bits), so that multiples of it are rounded.
FloatGrids ==
    {Grid(g, 0, 2 * m, nc, 2, 2, nr) :
        g \in {2, 6}, m \in Pow2(Precision - 1)..(Pow2(Precision) - 1),
        nc \in 1..MaxCols, nr \in 1..MaxRows}

Grids == WholeGrids \cup FloatGrids

(***************************************************************************)
(* The methods of cmaqfile, as functions of the metadata record d and the  *)
(* call's arguments.  Each yields what the call returned (ret), what it    *)
(* printed (out) and whether it ended with an exception (raised).          *)
(***************************************************************************)
\* engine: the points the transform engine handed back in the call (NoPts
\* when the call did not get that far).
NoPts == [x |-> <<>>, y |-> <<>>]
Returns(v) == [ret |-> v, out |-> <<>>, raised |-> FALSE, engine |-> NoPts]
Reports(m) == [ret |-> None, out |-> <<m>>, raised |-> FALSE, engine |-> NoPts]

\* Mutant: the sequences start at the origin instead of half a cell past it.
getXYcenters_FromOrigin(d) ==
    IF d.GDTYP = 1 THEN Reports(MsgCenters)
    ELSE LET xend == fl(d.XORIG + fl(d.XCELL * d.NCOLS))
             yend == fl(d.YORIG + fl(d.YCELL * d.NROWS))
         IN  Returns([kind |-> "centers",
                      X |-> arange(d.XORIG, xend, d.XCELL),
                      Y |-> arange(d.YORIG, yend, d.YCELL)])

getXYcenters(d) ==
    IF d.GDTYP = 1 THEN Reports(MsgCenters)
    ELSE LET xcell == d.XCELL
             xstart == d.XORIG
             xend == fl(xstart + fl(xcell * d.NCOLS))
             ycell == d.YCELL
             ystart == d.YORIG
             yend == fl(ystart + fl(ycell * d.NROWS))
             X == arange(fl(xstart + xcell \div 2), xend, xcell)
             Y == arange(fl(ystart + ycell \div 2), yend, ycell)
         IN  Returns([kind |-> "centers", X |-> X, Y |-> Y])

\* Mutant: the test of the lat-lon code is missing.
getXYcorners_Unchecked(d) ==
    LET X == arange(d.XORIG, fl(fl(d.XORIG + fl(d.XCELL * d.NCOLS)) + d.XCELL), d.XCELL)
        Y == arange(d.YORIG, fl(fl(d.YORIG + fl(d.YCELL * d.NROWS)) + d.YCELL), d.YCELL)
    IN  Returns([kind |-> "corners",
                 Xcorners |-> meshgrid(X, Y).Xcorners,
                 Ycorners |-> meshgrid(X, Y).Ycorners])

getXYcorners(d) ==
    IF d.GDTYP = 1 THEN Reports(MsgCorners)
    ELSE LET xcell == d.XCELL
             xstart == d.XORIG
             xend == fl(xstart + fl(xcell * d.NCOLS))
             ycell == d.YCELL
             ystart == d.YORIG
             yend == fl(ystart + fl(ycell * d.NROWS))
             X == arange(xstart, fl(xend + xcell), xcell)
             Y == arange(ystart, fl(yend + ycell), ycell)
             mesh == meshgrid(X, Y)
         IN  Returns([kind |-> "corners",
                      Xcorners |-> mesh.Xcorners, Ycorners |-> mesh.Ycorners])

\* ccrs.Globe(ellipse=None, semimajor_axis=radius, semiminor_axis=radius)
Globe(radius) ==
    [ellipse |-> "None", semimajor_axis |-> radius, semiminor_axis |-> radius]

\* Mutant: the polar projection takes P_ALP as its true-scale latitude.
getCMAQproj_Alp(d, radius) ==
    IF d.GDTYP = 2
    THEN Returns([kind |-> "LambertConformal",
                  central_longitude |-> d.XCENT,
                  central_latitude |-> d.YCENT,
                  standard_parallels |-> <<d.P_ALP, d.P_BET>>,
                  globe |-> Globe(radius)])
    ELSE IF d.GDTYP = 6
    THEN Returns([kind |-> "NorthPolarStereo",
                  central_longitude |-> d.XCENT,
                  true_scale_latitude |-> d.P_ALP,
                  globe |-> Globe(radius)])
    ELSE Reports(MsgUnsupported(d.GDTYP))

getCMAQproj(d, radius) ==
    IF d.GDTYP = 2
    THEN Returns([kind |-> "LambertConformal",
                  central_longitude |-> d.XCENT,
                  central_latitude |-> d.YCENT,
                  standard_parallels |-> <<d.P_ALP, d.P_BET>>,
                  globe |-> Globe(radius)])
    ELSE IF d.GDTYP = 6
    THEN Returns([kind |-> "NorthPolarStereo",
                  central_longitude |-> d.XCENT,
                  true_scale_latitude |-> d.P_BET,
                  globe |-> Globe(radius)])
    ELSE Reports(MsgUnsupported(d.GDTYP))

\* cmaqproj.transform_points(...) and PlateCarree().transform_points(cmaqproj,
\* ...): with cmaqproj = None the call raises (None has no such attribute, and
\* is no coordinate reference system); otherwise the engine's points pts come
\* back, one per input point.
Transformed(proj, pts) ==
    IF proj.ret.kind = "None"
    THEN [ret |-> None, out |-> proj.out, raised |-> TRUE, engine |-> NoPts]
    ELSE [ret |-> [kind |-> "points", xpts |-> pts.x, ypts |-> pts.y],
          out |-> proj.out, raised |-> FALSE, engine |-> pts]

\* Mutant: the sizes are compared one way only.
ll2xy_OneWay(d, lons, lats, pts) ==
    IF d.GDTYP = 1 THEN Reports(MsgLl2xyLatLon)
    ELSE IF Len(lons) > Len(lats) THEN Reports(MsgLonLatSize)
    ELSE Transformed(getCMAQproj(d, DefaultRadius), pts)

ll2xy(d, lons, lats, pts) ==
    IF d.GDTYP = 1 THEN Reports(MsgLl2xyLatLon)
    ELSE IF Len(lons) # Len(lats) THEN Reports(MsgLonLatSize)
    ELSE Transformed(getCMAQproj(d, DefaultRadius), pts)

xy2ll(d, X, Y, pts) ==
    IF d.GDTYP = 1 THEN Reports(MsgXy2llLatLon)
    ELSE IF Len(X) # Len(Y) THEN Reports(MsgXYSize)
    ELSE Transformed(getCMAQproj(d, DefaultRadius), pts)

\* a.min() and a.max() of a two-dimensional array.
Entries(a) == {a[r][c] : r \in DOMAIN a, c \in 1..Len(a[1])}
Least(S) == CHOOSE v \in S : \A w \in S : v <= w
Greatest(S) == CHOOSE v \in S : \A w \in S : v >= w
ArrayMin(a) == Least(Entries(a))
ArrayMax(a) == Greatest(Entries(a))

\* Mutant: the index of the last least value.
argmin_Last(s) ==
    (CHOOSE i \in DOMAIN s :
        /\ \A k \in DOMAIN s : s[i] <= s[k]
        /\ \A k \in (i + 1)..Len(s) : s[k] > s[i]) - 1

\* np.argmin(s): the zero-based index of the first least value.
argmin(s) ==
    (CHOOSE i \in DOMAIN s :
        /\ \A k \in DOMAIN s : s[i] <= s[k]
        /\ \A k \in 1..(i - 1) : s[k] > s[i]) - 1

\* Mutant: the signed difference, without np.abs.
AbsDiff_Signed(centers, x) == [k \in DOMAIN centers |-> fl(centers[k] - x)]

\* np.abs(centers - x)
AbsDiff(centers, x) == [k \in DOMAIN centers |-> Abs(fl(centers[k] - x))]

\* Mutant: a point outside on the y axis alone keeps its column index.
IndexOf_HalfNaN(Xcenters, Ycenters, Xcorners, Ycorners, x, y) ==
    IF x < ArrayMin(Xcorners) \/ x > ArrayMax(Xcorners) THEN <<NaN, NaN>>
    ELSE IF y < ArrayMin(Ycorners) \/ y > ArrayMax(Ycorners)
    THEN <<argmin(AbsDiff(Xcenters, x)), NaN>>
    ELSE <<argmin(AbsDiff(Xcenters, x)), argmin(AbsDiff(Ycenters, y))>>

\* The body of ll2ij's loop for one point: the pair appended to i and j.
IndexOf(Xcenters, Ycenters, Xcorners, Ycorners, x, y) ==
    IF x < ArrayMin(Xcorners) \/ x > ArrayMax(Xcorners) THEN <<NaN, NaN>>
    ELSE IF y < ArrayMin(Ycorners) \/ y > ArrayMax(Ycorners) THEN <<NaN, NaN>>
    ELSE <<argmin(AbsDiff(Xcenters, x)), argmin(AbsDiff(Ycenters, y))>>

\* ll2ij from line 276 on: the loop over the transformed points, with what
\* lines 272-274 assigned.
IndexLoop(Xcenters, Ycenters, Xcorners, Ycorners, xy) ==
    IF xy.raised THEN xy
    ELSE LET ij == [k \in DOMAIN xy.ret.xpts |->
                       IndexOf(Xcenters, Ycenters, Xcorners, Ycorners,
                               xy.ret.xpts[k], xy.ret.ypts[k])]
         IN  [ret |-> [kind |-> "indices",
                       i |-> [k \in DOMAIN ij |-> ij[k][1]],
                       j |-> [k \in DOMAIN ij |-> ij[k][2]]],
              out |-> xy.out, raised |-> FALSE, engine |-> xy.engine]

\* self.getXYcenters() and self.getXYcorners() on every record of the model,
\* computed once: they depend on the record alone.
XYcenters == [d \in Grids |-> getXYcenters(d)]
XYcorners == [d \in Grids |-> getXYcorners(d)]

ll2ij(d, lons, lats, pts) ==
    IF d.GDTYP = 1 THEN Reports(MsgLl2ijLatLon)
    ELSE IF Len(lons) # Len(lats) THEN Reports(MsgLonLatSize)
    ELSE IndexLoop(XYcenters[d].ret.X, XYcenters[d].ret.Y,
                   XYcorners[d].ret.Xcorners, XYcorners[d].ret.Ycorners,
                   ll2xy(d, lons, lats, pts))

(***************************************************************************)
(* The inputs.                                                             *)
(***************************************************************************)
Sizes == {0, 1, 2}
Degrees == {0}
Radii == {DefaultRadius, 6371229}

\* lons, lats, X, Y of a call: what the code reads of them is their size.
Inputs == UNION {[1..n -> Degrees] : n \in Sizes}

\* What the transform engine may hand back for n points drawn from PX x PY.
Pts(n, PX, PY) == {[x |-> xs, y |-> ys] : xs \in [1..n -> PX], ys \in [1..n -> PY]}

\* The engine's answers to a call whose outcome is r when the engine answers
\* probe: those of Pts(n, PX, PY) when the call consults the engine, and none
\* to choose from when it ends before.
Answers(r, n, PX, PY) == IF r.engine = NoPts /\ n > 0 THEN {NoPts} ELSE Pts(n, PX, PY)
Probe(n) == [x |-> [k \in 1..n |-> 0], y |-> [k \in 1..n |-> 0]]

\* The part of the plane the engine's points are drawn from: one quantum
\* around the domain on every side.
PlaneX(d) == (d.XORIG - 1)..(d.XORIG + d.XCELL * d.NCOLS + 1)
PlaneY(d) == (d.YORIG - 1)..(d.YORIG + d.YCELL * d.NROWS + 1)

\* On a grid of FloatGrids: the exact cell edges and centres up to two cells
\* past the domain.
MarksX(d) == {d.XORIG + k * (d.XCELL \div 2) : k \in -1..(2 * d.NCOLS + 4)}

(***************************************************************************)
(* The state machine: one action per method call.                          *)
(***************************************************************************)
NoArgs == [first |-> <<>>, second |-> <<>>, radius |-> 0]

Init ==
    /\ ds \in WholeGrids
    /\ op = ""
    /\ args = NoArgs
    /\ ret = None
    /\ out = <<>>
    /\ raised = FALSE
    /\ engine = NoPts

InitFloat ==
    /\ ds \in FloatGrids
    /\ op = ""
    /\ args = NoArgs
    /\ ret = None
    /\ out = <<>>
    /\ raised = FALSE
    /\ engine = NoPts

\* A call is made on the object at rest; its outcome is what the caller sees.
Idle == op = ""

Call(o, a, r) ==
    /\ Idle
    /\ \E res \in {r} :
         /\ op' = o
         /\ args' = a
         /\ ret' = res.ret
         /\ out' = res.out
         /\ raised' = res.raised
         /\ engine' = res.engine
    /\ UNCHANGED ds

Call_getXYcenters == Call("getXYcenters", NoArgs, getXYcenters(ds))

Call_getXYcorners == Call("getXYcorners", NoArgs, getXYcorners(ds))

Call_getCMAQproj(radius) ==
    Call("getCMAQproj", [NoArgs EXCEPT !.radius = radius], getCMAQproj(ds, radius))

Call_ll2xy(lons, lats, pts) ==
    Call("ll2xy", [NoArgs EXCEPT !.first = lons, !.second = lats],
         ll2xy(ds, lons, lats, pts))

Call_xy2ll(X, Y, pts) ==
    Call("xy2ll", [NoArgs EXCEPT !.first = X, !.second = Y], xy2ll(ds, X, Y, pts))

Call_ll2ij(lons, lats, pts) ==
    Call("ll2ij", [NoArgs EXCEPT !.first = lons, !.second = lats],
         ll2ij(ds, lons, lats, pts))

\* The caller is done with the outcome of the last call: the object keeps
\* nothing of a call but self.ds.
Discard ==
    /\ op # ""
    /\ op' = ""
    /\ args' = NoArgs
    /\ ret' = None
    /\ out' = <<>>
    /\ raised' = FALSE
    /\ engine' = NoPts
    /\ UNCHANGED ds

Next ==
    \/ Discard
    \/ Idle /\ Call_getXYcenters
    \/ Idle /\ Call_getXYcorners
    \/ Idle /\ \E radius \in Radii : Call_getCMAQproj(radius)
    \/ Idle /\ \E lons, lats \in Inputs :
         \E pts \in Answers(ll2xy(ds, lons, lats, Probe(Len(lons))), Len(lons),
                            {ds.XORIG}, {ds.YORIG}) :
            Call_ll2xy(lons, lats, pts)
    \/ Idle /\ \E X, Y \in Inputs :
         \E pts \in Answers(xy2ll(ds, X, Y, Probe(Len(X))), Len(X),
                            {ds.XCENT}, {ds.YCENT}) :
            Call_xy2ll(X, Y, pts)
    \/ Idle /\ \E lons, lats \in Inputs :
         \E pts \in Answers(ll2ij(ds, lons, lats, Probe(Len(lons))), Len(lons),
                            PlaneX(ds), PlaneY(ds)) :
            Call_ll2ij(lons, lats, pts)

Spec == Init /\ [][Next]_vars

NextFloat ==
    \/ Discard
    \/ Idle /\ Call_getXYcenters
    \/ Idle /\ Call_getXYcorners
    \/ Idle /\ \E pts \in Pts(1, MarksX(ds), PlaneY(ds)) : Call_ll2ij(<<0>>, <<0>>, pts)

SpecFloat == InitFloat /\ [][NextFloat]_vars

(***************************************************************************)
(* Error handling.                                                         *)
(***************************************************************************)
PlanarOps == {"getXYcenters", "getXYcorners"}
TransformOps == {"ll2xy", "xy2ll", "ll2ij"}
Handled == {2, 6}

SizeMismatch == Len(args.first) # Len(args.second)

\* The last call ended the soft way: something printed, nothing returned,
\* nothing raised.
SoftFailed == ret = None /\ out # <<>> /\ ~raised

\* The last call violated a precondition: a projection code the method does
\* not handle, or inputs of unequal length.
Violation ==
    \/ op \in PlanarOps /\ ds.GDTYP = 1
    \/ op = "getCMAQproj" /\ ds.GDTYP \notin Handled
    \/ op \in TransformOps /\ (ds.GDTYP \notin Handled \/ SizeMismatch)

\* C1: every call that violates a precondition (an unhandled GDTYP, inputs of
\* unequal length) ends with a message and no result, never with an exception;
\* ll2xy, xy2ll and ll2ij on a GDTYP other than 1, 2 and 6 included.
C1_SoftFail == Violation => SoftFailed

\* C2: getCMAQproj returns a Lambert Conformal Conic projection of XCENT, YCENT,
\* (P_ALP, P_BET) and the radius when GDTYP = 2, a North Polar Stereographic
\* projection of XCENT, P_BET and the radius when GDTYP = 6, and for any other
\* GDTYP prints the message naming that code and returns nothing.
C2_Projection ==
    op = "getCMAQproj" =>
        /\ ~raised
        /\ ds.GDTYP = 2 =>
             /\ ret.kind = "LambertConformal"
             /\ ret.central_longitude = ds.XCENT
             /\ ret.central_latitude = ds.YCENT
             /\ ret.standard_parallels = <<ds.P_ALP, ds.P_BET>>
             /\ ret.globe.semimajor_axis = args.radius
             /\ ret.globe.semiminor_axis = args.radius
             /\ out = <<>>
        /\ ds.GDTYP = 6 =>
             /\ ret.kind = "NorthPolarStereo"
             /\ ret.central_longitude = ds.XCENT
             /\ ret.true_scale_latitude = ds.P_BET
             /\ ret.globe.semimajor_axis = args.radius
             /\ ret.globe.semiminor_axis = args.radius
             /\ out = <<>>
        /\ ds.GDTYP \notin {2, 6} =>
             /\ ret = None
             /\ out = <<"Projection GDTYP " \o ToString(ds.GDTYP) \o " not supported.">>

\* Each branch of getCMAQproj has been taken: this one, the unsupported code 7.
C2_Witness == op = "getCMAQproj" /\ ds.GDTYP = 7 /\ ret = None /\ Len(out) = 1

\* C3: ll2xy, xy2ll and ll2ij with inputs of unequal length on a GDTYP other
\* than 1 print the size message and return nothing, whichever input is the
\* longer; with inputs of equal length the size message is never printed.
C3_SizeCheck ==
    (op \in TransformOps /\ ds.GDTYP # 1) =>
        /\ SizeMismatch =>
             /\ ret = None
             /\ ~raised
             /\ out = <<IF op = "xy2ll" THEN MsgXYSize ELSE MsgLonLatSize>>
        /\ ~SizeMismatch => \A k \in DOMAIN out : out[k] \notin {MsgXYSize, MsgLonLatSize}

\* A call whose second input is the longer one has been rejected.
C3_Witness ==
    /\ op = "ll2ij"
    /\ ds.GDTYP = 7
    /\ Len(args.first) < Len(args.second)
    /\ Len(args.first) > 0
    /\ out = <<MsgLonLatSize>>

\* C4: on a record with GDTYP = 1, getXYcenters, getXYcorners, ll2xy, xy2ll and
\* ll2ij each print one error and return nothing, whatever the other fields
\* and the arguments (of unequal length too).
C4_LatLon ==
    (op \in PlanarOps \cup TransformOps /\ ds.GDTYP = 1) =>
        /\ ret = None
        /\ ~raised
        /\ Len(out) = 1
        /\ out[1] \in {MsgCenters, MsgCorners, MsgLl2xyLatLon, MsgXy2llLatLon, MsgLl2ijLatLon}

\* xy2ll has been called on a lat-lon record with inputs of unequal length.
C4_Witness ==
    /\ op = "xy2ll"
    /\ ds.GDTYP = 1
    /\ SizeMismatch
    /\ out = <<MsgXy2llLatLon>>

(***************************************************************************)
(* The grid: cell centres, cell corners and the index lookup.              *)
(***************************************************************************)
\* The centre of column c and of row r, the west edge of column c and the
\* south edge of row r (zero-based), and the east and north end of the domain.
CentreX(c) == ds.XORIG + ds.XCELL \div 2 + c * ds.XCELL
CentreY(r) == ds.YORIG + ds.YCELL \div 2 + r * ds.YCELL
EdgeX(c) == ds.XORIG + c * ds.XCELL
EdgeY(r) == ds.YORIG + r * ds.YCELL
EndX == ds.XORIG + ds.XCELL * ds.NCOLS
EndY == ds.YORIG + ds.YCELL * ds.NROWS

Cols == 0..(ds.NCOLS - 1)
Rows == 0..(ds.NROWS - 1)

\* C5: for GDTYP # 1, getXYcenters returns exactly NCOLS values
\* X[c] = XORIG + XCELL/2 + c*XCELL and exactly NROWS values
\* Y[r] = YORIG + YCELL/2 + r*YCELL, each strictly below the end of the domain
\* on its axis.
C5_Centers ==
    (op = "getXYcenters" /\ ds.GDTYP # 1) =>
        /\ ret.kind = "centers"
        /\ Len(ret.X) = ds.NCOLS
        /\ Len(ret.Y) = ds.NROWS
        /\ \A c \in Cols : ret.X[c + 1] = CentreX(c) /\ ret.X[c + 1] < EndX
        /\ \A r \in Rows : ret.Y[r + 1] = CentreY(r) /\ ret.Y[r + 1] < EndY

\* The centres of the grid of 3 columns and 2 rows of cells of width 2 from
\* the origin have been returned: 1, 3, 5 and 1, 3.
C5_Witness ==
    /\ op = "getXYcenters"
    /\ ds = ExampleGrid
    /\ ret.kind = "centers"
    /\ ret.X = <<1, 3, 5>>
    /\ ret.Y = <<1, 3>>

\* C6: for GDTYP # 1, getXYcorners returns two arrays of NROWS+1 rows and
\* NCOLS+1 columns with Xcorners[r][c] = XORIG + c*XCELL and
\* Ycorners[r][c] = YORIG + r*YCELL: the last edge is the end of the domain and
\* no edge lies beyond it.
C6_Corners ==
    (op = "getXYcorners" /\ ds.GDTYP # 1) =>
        /\ ret.kind = "corners"
        /\ Len(ret.Xcorners) = ds.NROWS + 1
        /\ Len(ret.Ycorners) = ds.NROWS + 1
        /\ \A r \in 0..ds.NROWS :
             /\ Len(ret.Xcorners[r + 1]) = ds.NCOLS + 1
             /\ Len(ret.Ycorners[r + 1]) = ds.NCOLS + 1
             /\ \A c \in 0..ds.NCOLS :
                  /\ ret.Xcorners[r + 1][c + 1] = EdgeX(c)
                  /\ ret.Ycorners[r + 1][c + 1] = EdgeY(r)

\* The points of the last ll2ij call that came to its loop.
Looked == IF op = "ll2ij" /\ ret.kind = "indices" THEN DOMAIN engine.x ELSE {}

\* The least and the greatest corner of every record with a planar grid.
CornerRange ==
    [d \in {g \in Grids : g.GDTYP # 1} |->
        [xmin |-> ArrayMin(XYcorners[d].ret.Xcorners),
         xmax |-> ArrayMax(XYcorners[d].ret.Xcorners),
         ymin |-> ArrayMin(XYcorners[d].ret.Ycorners),
         ymax |-> ArrayMax(XYcorners[d].ret.Ycorners)]]

\* Point k passes ll2ij's test of membership in the domain: it lies between
\* the least and the greatest corner on both axes, bounds included.
Passes(k) ==
    /\ engine.x[k] >= CornerRange[ds].xmin
    /\ engine.x[k] <= CornerRange[ds].xmax
    /\ engine.y[k] >= CornerRange[ds].ymin
    /\ engine.y[k] <= CornerRange[ds].ymax

\* C7: in ll2ij a point strictly below the least or above the greatest corner
\* on either axis gets NaN for both i and j, never an index and a NaN, and
\* the other points of the call keep their own results.
C7_OutsideNaN ==
    (op = "ll2ij" /\ ret.kind = "indices") =>
        /\ DOMAIN ret.i = DOMAIN engine.x
        /\ DOMAIN ret.j = DOMAIN engine.x
        /\ \A k \in Looked :
             /\ ~Passes(k) => ret.i[k] = NaN /\ ret.j[k] = NaN
             /\ ret.i[k] = NaN <=> ret.j[k] = NaN
             /\ Passes(k) => ret.i[k] \in Cols /\ ret.j[k] \in Rows

\* A call of two points, the first outside on the y axis alone and the second
\* inside, has marked the first and indexed the second.
C7_Witness ==
    /\ Looked = {1, 2}
    /\ engine.x[1] = ds.XORIG /\ engine.y[1] > EndY
    /\ Passes(2)
    /\ ret.i = <<NaN, 1>>
    /\ ret.j[1] = NaN /\ ret.j[2] = 1

\* C8: in ll2ij a point at the centre of column c and row r gets i = c and
\* j = r (zero-based), not NaN.
C8_AtCentre ==
    \A k \in Looked : \A c \in Cols, r \in Rows :
        (engine.x[k] = CentreX(c) /\ engine.y[k] = CentreY(r)) =>
            ret.i[k] = c /\ ret.j[k] = r

\* The centre of the cell of column 1 and row 1 has been looked up.
C8_Witness ==
    \E k \in Looked :
        /\ engine.x[k] = CentreX(1) /\ engine.y[k] = CentreY(1)
        /\ ret.i[k] = 1 /\ ret.j[k] = 1

\* C9: in ll2ij, for a point inside the domain, i is the least index that
\* minimises |Xcenters[i] - x| and j the least that minimises |Ycenters[j] - y|;
\* so a point on the edge between columns c and c+1 (rows r and r+1) gets the
\* lower index c (r).
C9_FirstNearest ==
    \A k \in Looked : Passes(k) =>
        /\ ret.i[k] \in Cols
        /\ ret.j[k] \in Rows
        /\ \A c \in Cols :
             /\ Abs(CentreX(ret.i[k]) - engine.x[k]) <= Abs(CentreX(c) - engine.x[k])
             /\ c < ret.i[k] =>
                  Abs(CentreX(c) - engine.x[k]) > Abs(CentreX(ret.i[k]) - engine.x[k])
             /\ (c + 1 \in Cols /\ engine.x[k] = EdgeX(c + 1)) => ret.i[k] = c
        /\ \A r \in Rows :
             /\ Abs(CentreY(ret.j[k]) - engine.y[k]) <= Abs(CentreY(r) - engine.y[k])
             /\ r < ret.j[k] =>
                  Abs(CentreY(r) - engine.y[k]) > Abs(CentreY(ret.j[k]) - engine.y[k])
             /\ (r + 1 \in Rows /\ engine.y[k] = EdgeY(r + 1)) => ret.j[k] = r

\* A point on the edge between columns 0 and 1 and between rows 0 and 1 has
\* been given column 0 and row 0.
C9_Witness ==
    \E k \in Looked :
        /\ ds.NCOLS > 1 /\ ds.NROWS > 1
        /\ engine.x[k] = EdgeX(1) /\ engine.y[k] = EdgeY(1)
        /\ ret.i[k] = 0 /\ ret.j[k] = 0

\* C10: in ll2ij every point that passes the test of membership in the domain
\* (bounds included) gets indices 0 <= i <= NCOLS-1 and 0 <= j <= NROWS-1 of a
\* cell that contains it: XORIG + i*XCELL <= x <= XORIG + (i+1)*XCELL and
\* YORIG + j*YCELL <= y <= YORIG + (j+1)*YCELL.
C10_InCell ==
    \A k \in Looked : Passes(k) =>
        /\ ret.i[k] \in Cols
        /\ ret.j[k] \in Rows
        /\ EdgeX(ret.i[k]) <= engine.x[k] /\ engine.x[k] <= EdgeX(ret.i[k] + 1)
        /\ EdgeY(ret.j[k]) <= engine.y[k] /\ engine.y[k] <= EdgeY(ret.j[k] + 1)

====
